---- MODULE Spec2Model ----
(***************************************************************************)
(* Model of Geolocation_Tracker.py: the cached, retrying geolocation       *)
(* client (get_ip_geolocation over the session of setup_session) and the   *)
(* interactive menu loop of main.                                          *)
(*                                                                         *)
(* Text is modelled as a sequence of tokens, Python values as records.     *)
(* One step of the model is one menu choice handled to its end, except     *)
(* that a lookup that goes to the network is split at its blocking points: *)
(* one step per HTTP attempt, and the map choice waits at its zoom prompt. *)
(*                                                                         *)
(* Library behaviour relied on (urllib3 Retry / requests HTTPAdapter):     *)
(*  - Retry(total=n) allows n retries after the first attempt;             *)
(*  - a status of status_forcelist, a connect error/timeout and a read     *)
(*    timeout of a GET consume one retry each;                             *)
(*  - exhaustion on a status raises RetryError, on a connect timeout       *)
(*    ConnectTimeout, on anything else ConnectionError;                    *)
(*  - response.json() on a body that is not JSON raises                    *)
(*    requests.exceptions.JSONDecodeError, a RequestException.             *)
(***************************************************************************)
EXTENDS Integers, Sequences, FiniteSets, TLC

VARIABLES
    pc,             \* position of main: "menu", "request", "zoom", "exited", "crashed"
    geo_cache,      \* the module-level dict: cache key -> stored value
    last_geo_data,  \* main's local slot
    req,            \* the lookup in flight: choice, ip_address, remaining Retry.total
    attempts,       \* HTTP attempts sent so far by the session.get in flight
    requests,       \* per cache key: number of session.get calls issued so far
    fetched,        \* per cache key: number of session.get calls that returned a body
    first,          \* per cache key: the first fetch that returned a body (argument, value)
    file,           \* contents of geolocation_data.json: the records appended
    ev              \* what the most recent handler did: its prints, what
                    \* get_ip_geolocation returned to it, its collaborator calls

vars == << pc, geo_cache, last_geo_data, req, attempts, requests, fetched, first,
           file, ev >>

----------------------------------------------------------------------------
(* Bounds of the model *)

\* session.get calls of the session
MaxRequests == 2

\* records in the output file
MaxFile == 2

----------------------------------------------------------------------------
(* Python values *)

\* a dict without the key "loc"
NoLoc == [type |-> "absent", text |-> << >>]

\* "loc": "<text>"
LocStr(text) == [type |-> "str", text |-> text]

\* None
None == [json |-> "null", ip |-> "", loc |-> NoLoc]

\* JSON objects as parsed by response.json(); loc is the "lat,lon" text
GeoA == [json |-> "dict", ip |-> "8.8.8.8", loc |-> LocStr(<< "37.4", ",", "-122.08" >>)]

GeoB == [json |-> "dict", ip |-> "1.1.1.1", loc |-> LocStr(<< "x", ",", "1" >>)]

\* JSON objects whose loc is not "lat,lon": absent, one part, three parts,
\* an empty part, a part that is no number, and a loc that is a JSON number
GeoNoLoc == [json |-> "dict", ip |-> "2.2.2.2", loc |-> NoLoc]

GeoOnePart == [json |-> "dict", ip |-> "2.2.2.2", loc |-> LocStr(<< "37.4" >>)]

GeoThreeParts ==
    [json |-> "dict", ip |-> "2.2.2.2", loc |-> LocStr(<< "1", ",", "1", ",", "1" >>)]

GeoEmptyPart == [json |-> "dict", ip |-> "2.2.2.2", loc |-> LocStr(<< "37.4", "," >>)]

GeoBadLon == [json |-> "dict", ip |-> "2.2.2.2", loc |-> LocStr(<< "1.0", ",", "x" >>)]

GeoNumLoc == [json |-> "dict", ip |-> "2.2.2.2", loc |-> [type |-> "num", text |-> << >>]]

\* {}
EmptyDict == [json |-> "emptydict", ip |-> "", loc |-> NoLoc]

\* a non-empty JSON array, e.g. ["x"]
JsonList == [json |-> "list", ip |-> "", loc |-> NoLoc]

\* response bodies of a 200: JSON texts and one text that is not JSON
Bodies == { "geoA", "geoB", "{}", "[x]", "null", "<html>" }

IsJson(body) == body # "<html>"

\* response.json() of a body that is JSON
Json(body) ==
    CASE body = "geoA" -> GeoA
      [] body = "geoB" -> GeoB
      [] body = "{}"   -> EmptyDict
      [] body = "[x]"  -> JsonList
      [] OTHER         -> None

\* truth value of a Python value: None, {} are false
Truthy(v) == v.json \in { "dict", "list" }

\* has the dict method .get
IsDict(v) == v.json \in { "dict", "emptydict" }

----------------------------------------------------------------------------
(* Text *)

Space == " "

RECURSIVE LStrip(_)
LStrip(s) == IF s # << >> /\ Head(s) = Space THEN LStrip(Tail(s)) ELSE s

RECURSIVE RStrip(_)
RStrip(s) ==
    IF s # << >> /\ s[Len(s)] = Space THEN RStrip(SubSeq(s, 1, Len(s) - 1)) ELSE s

\* str.strip()
Strip(s) == RStrip(LStrip(s))

Digits == { "0", "1", "2", "3", "4", "5", "6", "7", "8", "9" }

DigitVal(d) ==
    CASE d = "0" -> 0 [] d = "1" -> 1 [] d = "2" -> 2 [] d = "3" -> 3 [] d = "4" -> 4
      [] d = "5" -> 5 [] d = "6" -> 6 [] d = "7" -> 7 [] d = "8" -> 8 [] OTHER -> 9

RECURSIVE NatOf(_)
NatOf(s) == IF s = << >> THEN 0 ELSE 10 * NatOf(SubSeq(s, 1, Len(s) - 1)) + DigitVal(s[Len(s)])

IsNatText(s) == s # << >> /\ \A i \in 1..Len(s) : s[i] \in Digits

\* int(text) does not raise ValueError: an optional sign, then digits
IsIntText(s) ==
    IF s # << >> /\ Head(s) \in { "+", "-" } THEN IsNatText(Tail(s)) ELSE IsNatText(s)

\* int(text)
IntOf(s) ==
    IF Head(s) = "-" THEN 0 - NatOf(Tail(s))
    ELSE IF Head(s) = "+" THEN NatOf(Tail(s)) ELSE NatOf(s)

\* str.split(","), never empty
RECURSIVE SplitFrom(_, _)
SplitFrom(s, cur) ==
    IF s = << >> THEN << cur >>
    ELSE IF Head(s) = "," THEN << cur >> \o SplitFrom(Tail(s), << >>)
    ELSE SplitFrom(Tail(s), Append(cur, Head(s)))

Split(s) == SplitFrom(s, << >>)

\* str.lower() on the tokens used
LowerToken(t) ==
    CASE t = "Green" -> "green" [] OTHER -> t

Lower(s) == [i \in 1..Len(s) |-> LowerToken(s[i])]

\* float(text) does not raise ValueError
IsFloatText(s) == Strip(s) \in { << "37.4" >>, << "-122.08" >>, << "1" >>, << "1.0" >> }

\* float(text), in hundredths
FloatOf(s) ==
    CASE Strip(s) = << "37.4" >>    -> 3740
      [] Strip(s) = << "-122.08" >> -> 0 - 12208
      [] OTHER                      -> 100

----------------------------------------------------------------------------
(* setup_session *)

\* Retry(total=3, ...)
RetryTotal == 3

\* every 5xx listed
StatusForcelistAll5xx == { 429 } \cup 500..599

\* Retry(..., status_forcelist=[429, 500, 502, 503, 504])
StatusForcelist == { 429, 500, 502, 503, 504 }

\* what one HTTP attempt can end in
Codes == { 200, 404, 429, 501, 503 }

Outcomes ==
    [kind : { "status" }, code : Codes, body : Bodies]
      \cup [kind : { "ctimeout", "rtimeout", "connerr" }, code : { 0 }, body : { "" }]

\* urllib3 consumes a retry on this outcome
Retryable(o) ==
    \/ o.kind \in { "ctimeout", "rtimeout", "connerr" }
    \/ o.kind = "status" /\ o.code \in StatusForcelist

\* the last retry is never used
RetriesLeftOffByOne(retries) == retries > 1

\* Retry.is_exhausted is false after one more increment
RetriesLeft(retries) == retries > 0

\* the outcome of an attempt without its body
Seen(o) == [kind |-> o.kind, code |-> o.code]

\* no attempt yet
NoOutcome == [kind |-> "none", code |-> 0]

\* the except clause of get_ip_geolocation that the exhausted retry reaches
ExhaustedError(o) ==
    IF o.kind = "ctimeout" THEN "Timeout" ELSE "RequestException"

----------------------------------------------------------------------------
(* get_ip_geolocation *)

\* ip_address argument: absent (None) or a text
NoIp == [some |-> FALSE, text |-> << >>]

Ip(text) == [some |-> TRUE, text |-> text]

\* "if ip_address is not None"
IpGivenNotNone(ip) == ip.some

\* "if ip_address": None and "" are false
IpGiven(ip) == ip.some /\ ip.text # << >>

\* the address left out of the URL
UrlIgnoringIp(ip) == << "https://ipinfo.io/", "json" >>

Url(ip) ==
    IF IpGiven(ip)
    THEN << "https://ipinfo.io/" >> \o ip.text \o << "/", "json" >>
    ELSE << "https://ipinfo.io/", "json" >>

\* str(params)
ParamsStr == << "{'token': '20020022f148d7'}" >>

CacheKey(ip) == Url(ip) \o ParamsStr

\* the cache is never consulted
InCacheNever(cache, key) == FALSE

InCache(cache, key) == key \in DOMAIN cache

\* the cache holds the latest result only
CacheStoreSingle(cache, key, v) == [k \in { key } |-> v]

\* None is stored in place of the result
CacheStoreNone(cache, key, v) ==
    [k \in DOMAIN cache \cup { key } |-> IF k = key THEN None ELSE cache[k]]

\* the result is not stored
CacheStoreDropped(cache, key, v) == cache

\* geo_cache[cache_key] = geo_data
CacheStore(cache, key, v) ==
    [k \in DOMAIN cache \cup { key } |-> IF k = key THEN v ELSE cache[k]]

\* what get_ip_geolocation returned: the value, whether it came from the
\* cache, and the except clause taken (with the status an HTTPError carries)
Return(ip, v, cached, error, status, http) ==
    [valid |-> TRUE, ip |-> ip, key |-> CacheKey(ip), value |-> v, cached |-> cached,
     error |-> error, status |-> status, http |-> http]

\* the run of session.get behind a return: attempts sent, how the last one
\* ended, whether the retries were exhausted, whether every attempt ended in
\* a status of status_forcelist
Http(sent, last, exhausted, onlyStatus) ==
    [attempts |-> sent, last |-> last, exhausted |-> exhausted, onlyStatus |-> onlyStatus]

\* no session.get: the return came from the cache
NoHttp == Http(0, NoOutcome, FALSE, FALSE)

\* get_ip_geolocation has not returned yet
NoReturn == [valid |-> FALSE, ip |-> NoIp, key |-> << >>, value |-> None,
             cached |-> FALSE, error |-> "", status |-> 0, http |-> NoHttp]

\* the print of the except clause
ErrorPrint(error) ==
    CASE error = "Timeout"   -> "Error: Request timed out."
      [] error = "HTTPError" -> "HTTP error occurred"
      [] OTHER               -> "Request error"

----------------------------------------------------------------------------
(* display_details *)

\* the prints of display_details, or the AttributeError of geo_data.get
DisplayDetails(v) ==
    IF ~Truthy(v) THEN "No geolocation data to display."
    ELSE IF IsDict(v) THEN "=== Geolocation Details ==="
    ELSE "AttributeError"

----------------------------------------------------------------------------
(* main: inputs *)

\* texts typed at "Enter IP address to geolocate: "
AddrInputs ==
    { << >>, << " " >>, << "8.8.8.8" >>, << " ", "8.8.8.8", " " >>, << "1.1.1.1" >> }

\* texts typed at "Choose an option (1-6): "
MenuInputs ==
    { << "1" >>, << "2" >>, << "3" >>, << "4" >>, << "5" >>, << "6" >>, << " ", "1" >>,
      << "0" >>, << "7" >>, << "1", "2" >>, << "-", "1" >>, << "x" >>, << >> }

\* texts typed at "Enter zoom level (1-18, default 10): "
ZoomInputs ==
    { << "1" >>, << "1", "2" >>, << "1", "8" >>, << "1", "9" >>, << "2", "5" >>,
      << "0" >>, << "x" >> }

\* texts typed at "Enter marker color (default blue): "
ColorInputs == { << "green" >>, << " ", "Green" >>, << "pink" >> }

\* the last option left out
ValidOptionsShort == 1..5

\* display_menu: valid_options=[1, 2, 3, 4, 5, 6]
ValidOptions == 1..6

\* get_valid_input returns n for the menu text t
Chosen(t, n) ==
    /\ IsIntText(Strip(t))
    /\ IntOf(Strip(t)) = n
    /\ n \in ValidOptions

\* every cache key a lookup of the session can compute
AllKeys == { CacheKey(NoIp) } \cup { CacheKey(Ip(Strip(t))) : t \in AddrInputs }

\* no lookup in flight
Idle == [choice |-> 0, ip |-> NoIp, retries |-> 0, last |-> NoOutcome, onlyStatus |-> FALSE]

\* create_map was not called
NoMap == [lat |-> 0, lon |-> 0, zoom |-> 0, color |-> << >>, details |-> None,
          zin |-> 0, cin |-> << >>]

\* no text was rejected at a prompt
NoText == [some |-> FALSE, text |-> << >>]

\* the text rejected at a prompt
Text(t) == [some |-> TRUE, text |-> t]

\* the record of one handler run: its prints, the return of its call of
\* get_ip_geolocation, the slot it started from, whether it called
\* save_to_file, whether it called create_map and with which arguments (and
\* from which zoom and color entered), the text get_valid_input rejected
Event(op, prints, ret, slot, saved, mapped, map) ==
    [op |-> op, prints |-> prints, ret |-> ret, slot |-> slot, saved |-> saved,
     mapped |-> mapped, map |-> map, rejected |-> NoText]

Quiet(op, prints) == Event(op, prints, NoReturn, last_geo_data, FALSE, FALSE, NoMap)

\* get_valid_input rejects the text t
Reprompt(op, t, prints) == [Quiet(op, prints) EXCEPT !.rejected = Text(t)]

----------------------------------------------------------------------------
(* main: choices 1 and 2 *)

\* the slot emptied when the lookup returns nothing
SlotAfterReset(slot, geo) == IF Truthy(geo) THEN geo ELSE None

\* the slot assigned without the "if geo_data" test
SlotAfterAlways(slot, geo) == geo

\* "if geo_data: last_geo_data = geo_data"
SlotAfter(slot, geo) == IF Truthy(geo) THEN geo ELSE slot

\* the rest of the handler once get_ip_geolocation has returned geo
AfterLookup(op, ret, prints) ==
    LET geo   == ret.value
        shown == IF Truthy(geo) THEN << DisplayDetails(geo) >> ELSE << >>
    IN
    /\ last_geo_data' = SlotAfter(last_geo_data, geo)
    /\ pc' = IF Truthy(geo) /\ DisplayDetails(geo) = "AttributeError"
             THEN "crashed" ELSE "menu"
    /\ ev' = Event(op, prints \o shown, ret, last_geo_data, FALSE, FALSE, NoMap)

RECURSIVE Sum(_, _)
Sum(f, S) == IF S = { } THEN 0 ELSE LET k == CHOOSE x \in S : TRUE IN f[k] + Sum(f, S \ { k })

\* session.get calls issued so far
Issued == Sum(requests, AllKeys)

\* get_ip_geolocation up to the cache check; a miss issues session.get
Lookup(op, choice, ip) ==
    LET key == CacheKey(ip) IN
    IF InCache(geo_cache, key)
    THEN /\ AfterLookup(op, Return(ip, geo_cache[key], TRUE, "", 0, NoHttp),
                        << "Using cached data..." >>)
         /\ UNCHANGED << geo_cache, req, attempts, requests, fetched, first, file >>
    ELSE /\ Issued < MaxRequests
         /\ pc' = "request"
         /\ req' = [choice |-> choice, ip |-> ip, retries |-> RetryTotal,
                    last |-> NoOutcome, onlyStatus |-> TRUE]
         /\ attempts' = 0
         /\ requests' = [requests EXCEPT ![key] = @ + 1]
         /\ ev' = Quiet(op, << >>)
         /\ UNCHANGED << geo_cache, last_geo_data, fetched, first, file >>

\* choice 1
LocateSelf ==
    /\ pc = "menu"
    /\ \E t \in MenuInputs : Chosen(t, 1)
    /\ Lookup("locate_self", 1, NoIp)

\* choice 2
LocateTarget(text) ==
    /\ pc = "menu"
    /\ \E t \in MenuInputs : Chosen(t, 2)
    /\ Lookup("locate_target", 2, Ip(Strip(text)))

OpOf(choice) == IF choice = 1 THEN "locate_self" ELSE "locate_target"

\* the session.get in flight, ended by outcome o
Ended(o, exhausted) ==
    Http(attempts + 1, Seen(o), exhausted,
         req.onlyStatus /\ o.kind = "status" /\ o.code \in StatusForcelist)

\* who fetched a cache entry first, and what
Fetch(ip, v) == [ip |-> ip, value |-> v]

\* an except clause after which the lookup is sent again unasked
LookupFailsRetrying(error, status, http) ==
    /\ req' = [req EXCEPT !.retries = RetryTotal, !.last = NoOutcome, !.onlyStatus = TRUE]
    /\ pc' = "request"
    /\ last_geo_data' = last_geo_data
    /\ ev' = Event(OpOf(req.choice), << ErrorPrint(error) >>,
                   Return(req.ip, None, FALSE, error, status, http), last_geo_data,
                   FALSE, FALSE, NoMap)
    /\ UNCHANGED << geo_cache, fetched, first >>

\* an except clause that also stores None under the cache key
LookupFailsCached(error, status, http) ==
    /\ req' = Idle
    /\ geo_cache' = [k \in DOMAIN geo_cache \cup { CacheKey(req.ip) } |->
                        IF k = CacheKey(req.ip) THEN None ELSE geo_cache[k]]
    /\ AfterLookup(OpOf(req.choice), Return(req.ip, None, FALSE, error, status, http),
                   << ErrorPrint(error) >>)
    /\ UNCHANGED << fetched, first >>

\* an except clause of get_ip_geolocation: print, return None
LookupFails(error, status, http) ==
    /\ req' = Idle
    /\ AfterLookup(OpOf(req.choice), Return(req.ip, None, FALSE, error, status, http),
                   << ErrorPrint(error) >>)
    /\ UNCHANGED << geo_cache, fetched, first >>

\* lines 42-44: parse, cache, return
LookupReturns(geo, http) ==
    LET key == CacheKey(req.ip) IN
    /\ geo_cache' = CacheStore(geo_cache, key, geo)
    /\ fetched' = [fetched EXCEPT ![key] = @ + 1]
    /\ first' = IF fetched[key] = 0 THEN [first EXCEPT ![key] = Fetch(req.ip, geo)] ELSE first
    /\ req' = Idle
    /\ AfterLookup(OpOf(req.choice), Return(req.ip, geo, FALSE, "", 0, http), << >>)

\* one HTTP attempt of session.get ends in outcome o
Attempt(o) ==
    /\ pc = "request"
    /\ UNCHANGED << requests, file >>
    /\ IF Retryable(o)
       THEN IF RetriesLeft(req.retries)
            THEN /\ attempts' = attempts + 1
                 /\ req' = [req EXCEPT !.retries = @ - 1, !.last = Seen(o),
                                       !.onlyStatus = @ /\ o.kind = "status"]
                 /\ UNCHANGED << pc, geo_cache, last_geo_data, fetched, first, ev >>
            ELSE /\ attempts' = 0
                 /\ LookupFails(ExhaustedError(o), 0, Ended(o, TRUE))
       ELSE /\ attempts' = 0
            /\ IF o.code >= 400
               THEN LookupFails("HTTPError", o.code, Ended(o, FALSE))
               ELSE IF IsJson(o.body)
                    THEN LookupReturns(Json(o.body), Ended(o, FALSE))
                    ELSE LookupFails("RequestException", 0, Ended(o, FALSE))

----------------------------------------------------------------------------
(* main: the menu prompt and choices 3 to 6 *)

\* get_valid_input on a text it rejects: print and prompt again
MenuReprompt(t) ==
    /\ pc = "menu"
    /\ ~ \E n \in ValidOptions : Chosen(t, n)
    /\ ev' = Reprompt("reprompt", t,
                      IF IsIntText(Strip(t)) THEN << "Please choose from" >>
                      ELSE << "Invalid input!" >>)
    /\ UNCHANGED << pc, geo_cache, last_geo_data, req, attempts, requests, fetched,
                    first, file >>

\* choice 3 forgetting the record once shown
ShowLastConsuming ==
    /\ pc = "menu"
    /\ \E t \in MenuInputs : Chosen(t, 3)
    /\ last_geo_data' = None
    /\ ev' = Quiet("show",
                   IF Truthy(last_geo_data) THEN << DisplayDetails(last_geo_data) >>
                   ELSE << "No geolocation data available. Fetch data first." >>)
    /\ UNCHANGED << pc, geo_cache, req, attempts, requests, fetched, first, file >>

\* choice 3
ShowLast ==
    /\ pc = "menu"
    /\ \E t \in MenuInputs : Chosen(t, 3)
    /\ ev' = Quiet("show",
                   IF Truthy(last_geo_data) THEN << DisplayDetails(last_geo_data) >>
                   ELSE << "No geolocation data available. Fetch data first." >>)
    /\ UNCHANGED << pc, geo_cache, last_geo_data, req, attempts, requests, fetched,
                    first, file >>

\* json.dump(geo_data, f, indent=4): the JSON object text written
Dump(v) == [ip |-> v.ip, loc |-> v.loc]

\* choice 4 opening the file with "w"
SaveLastOverwriting(writable) ==
    /\ pc = "menu"
    /\ \E t \in MenuInputs : Chosen(t, 4)
    /\ IF Truthy(last_geo_data)
       THEN IF writable
            THEN /\ Len(file) < MaxFile
                 /\ file' = << Dump(last_geo_data) >>
                 /\ ev' = Event("save", << "Geolocation data saved" >>, NoReturn, last_geo_data,
                             TRUE, FALSE, NoMap)
            ELSE /\ file' = file
                 /\ ev' = Event("save", << "Error saving data to file" >>, NoReturn, last_geo_data,
                             TRUE, FALSE, NoMap)
       ELSE /\ file' = file
            /\ ev' = Quiet("save", << "No geolocation data to save. Fetch data first." >>)
    /\ UNCHANGED << pc, geo_cache, last_geo_data, req, attempts, requests, fetched,
                    first >>

\* choice 4 without the "if last_geo_data" test
SaveLastUnguarded(writable) ==
    /\ pc = "menu"
    /\ \E t \in MenuInputs : Chosen(t, 4)
    /\ IF writable
       THEN /\ Len(file) < MaxFile
            /\ file' = Append(file, Dump(last_geo_data))
            /\ ev' = Event("save", << "Geolocation data saved" >>, NoReturn, last_geo_data,
                           TRUE, FALSE, NoMap)
       ELSE /\ file' = file
            /\ ev' = Event("save", << "Error saving data to file" >>, NoReturn, last_geo_data,
                           TRUE, FALSE, NoMap)
    /\ UNCHANGED << pc, geo_cache, last_geo_data, req, attempts, requests, fetched,
                    first >>

\* choice 4; writable: open(filename, "a") and the writes succeed
SaveLast(writable) ==
    /\ pc = "menu"
    /\ \E t \in MenuInputs : Chosen(t, 4)
    /\ IF Truthy(last_geo_data)
       THEN IF writable
            THEN /\ Len(file) < MaxFile
                 /\ file' = Append(file, Dump(last_geo_data))
                 /\ ev' = Event("save", << "Geolocation data saved" >>, NoReturn, last_geo_data,
                             TRUE, FALSE, NoMap)
            ELSE /\ file' = file
                 /\ ev' = Event("save", << "Error saving data to file" >>, NoReturn, last_geo_data,
                             TRUE, FALSE, NoMap)
       ELSE /\ file' = file
            /\ ev' = Quiet("save", << "No geolocation data to save. Fetch data first." >>)
    /\ UNCHANGED << pc, geo_cache, last_geo_data, req, attempts, requests, fetched,
                    first >>

\* last_geo_data.get("loc", "").split(",")
LocParts(v) == Split(IF v.loc.type = "str" THEN v.loc.text ELSE << >>)

\* choice 5 up to the zoom prompt
MapChoice ==
    /\ pc = "menu"
    /\ \E t \in MenuInputs : Chosen(t, 5)
    /\ IF ~Truthy(last_geo_data)
       THEN /\ pc' = "menu"
            /\ ev' = Quiet("map", << "No geolocation data available. Fetch data first." >>)
       ELSE IF last_geo_data.loc.type = "num"
       THEN /\ pc' = "crashed"
            /\ ev' = Quiet("map", << "AttributeError" >>)
       ELSE LET loc == LocParts(last_geo_data) IN
            IF Len(loc) # 2
            THEN /\ pc' = "menu"
                 /\ ev' = Quiet("map", << "Error: Could not extract location data." >>)
            ELSE IF ~(IsFloatText(loc[1]) /\ IsFloatText(loc[2]))
                 THEN /\ pc' = "menu"
                      /\ ev' = Quiet("map", << "Error: Invalid location data format." >>)
                 ELSE /\ pc' = "zoom"
                      /\ ev' = Quiet("map", << >>)
    /\ UNCHANGED << geo_cache, last_geo_data, req, attempts, requests, fetched,
                    first, file >>

\* get_valid_input at the zoom prompt on a text that is not an integer
ZoomReprompt(t) ==
    /\ pc = "zoom"
    /\ ~IsIntText(Strip(t))
    /\ ev' = Reprompt("map", t, << "Invalid input!" >>)
    /\ UNCHANGED << pc, geo_cache, last_geo_data, req, attempts, requests, fetched,
                    first, file >>

\* default of an out-of-range zoom level
DefaultZoom == 10

\* default of an unknown marker color
DefaultColor == << "blue" >>

MarkerColors == { << "red" >>, << "blue" >>, << "green" >>, << "purple" >>, << "orange" >> }

\* the upper limit excluded
ZoomLevelExclusive(z) == IF 1 <= z /\ z < 18 THEN z ELSE DefaultZoom

\* "if not 1 <= zoom_level <= 18: zoom_level = 10"
ZoomLevel(z) == IF 1 <= z /\ z <= 18 THEN z ELSE DefaultZoom

\* "if marker_color not in [...]: marker_color = 'blue'"
MarkerColor(c) == IF c \in MarkerColors THEN c ELSE DefaultColor

\* choice 5 from an integer zoom text on: color prompt and create_map;
\* rendered: folium and webbrowser raise nothing
MapRender(zt, ct, rendered) ==
    LET loc   == LocParts(last_geo_data)
        z     == IntOf(Strip(zt))
        c     == Lower(Strip(ct))
        notes == (IF ~(1 <= z /\ z <= 18)
                  THEN << "Zoom level out of range. Using default (10)." >> ELSE << >>)
                 \o (IF c \notin MarkerColors
                     THEN << "Invalid color. Using default (blue)." >> ELSE << >>)
                 \o (IF rendered THEN << "Map has been saved and opened" >>
                     ELSE << "Error creating the map" >>)
    IN
    /\ pc = "zoom"
    /\ IsIntText(Strip(zt))
    /\ pc' = "menu"
    /\ ev' = Event("map", notes, NoReturn, last_geo_data, FALSE, TRUE,
                   [lat |-> FloatOf(loc[1]), lon |-> FloatOf(loc[2]),
                    zoom |-> ZoomLevel(z), color |-> MarkerColor(c),
                    details |-> last_geo_data, zin |-> z, cin |-> ct])
    /\ UNCHANGED << geo_cache, last_geo_data, req, attempts, requests, fetched,
                    first, file >>

\* choice 6
Exit ==
    /\ pc = "menu"
    /\ \E t \in MenuInputs : Chosen(t, 6)
    /\ pc' = "exited"
    /\ ev' = Quiet("exit", << "Exiting IP Geolocation Tracker. Goodbye!" >>)
    /\ UNCHANGED << geo_cache, last_geo_data, req, attempts, requests, fetched,
                    first, file >>

----------------------------------------------------------------------------
(* The session *)

Init ==
    /\ pc = "menu"
    /\ geo_cache = << >>
    /\ last_geo_data = None
    /\ req = Idle
    /\ attempts = 0
    /\ requests = [k \in AllKeys |-> 0]
    /\ fetched = [k \in AllKeys |-> 0]
    /\ first = [k \in AllKeys |-> Fetch(NoIp, None)]
    /\ file = << >>
    /\ ev = Quiet("start", << >>)

Next ==
    \/ LocateSelf
    \/ \E text \in AddrInputs : LocateTarget(text)
    \/ \E o \in Outcomes : Attempt(o)
    \/ \E t \in MenuInputs : MenuReprompt(t)
    \/ ShowLast
    \/ \E writable \in BOOLEAN : SaveLast(writable)
    \/ MapChoice
    \/ \E t \in ZoomInputs : ZoomReprompt(t)
    \/ \E zt \in ZoomInputs, ct \in ColorInputs, rendered \in BOOLEAN : MapRender(zt, ct, rendered)
    \/ Exit

Spec == Init /\ [][Next]_vars

----------------------------------------------------------------------------
(* The session from a first successful lookup on, without further lookups *)

\* the JSON objects the first lookup may have returned
LocRecords ==
    { GeoA, GeoB, GeoNoLoc, GeoOnePart, GeoThreeParts, GeoEmptyPart, GeoBadLon, GeoNumLoc }

\* the state after choice 1 was answered 200 with the object r at once
InitLocated ==
    \E r \in LocRecords :
        /\ pc = "menu"
        /\ geo_cache = CacheStore(<< >>, CacheKey(NoIp), r)
        /\ last_geo_data = SlotAfter(None, r)
        /\ req = Idle
        /\ attempts = 0
        /\ requests = [k \in AllKeys |-> IF k = CacheKey(NoIp) THEN 1 ELSE 0]
        /\ fetched = [k \in AllKeys |-> IF k = CacheKey(NoIp) THEN 1 ELSE 0]
        /\ first = [k \in AllKeys |->
                      IF k = CacheKey(NoIp) THEN Fetch(NoIp, r) ELSE Fetch(NoIp, None)]
        /\ file = << >>
        /\ ev = Event("locate_self", << DisplayDetails(r) >>,
                      Return(NoIp, r, FALSE, "", 0,
                             Http(1, [kind |-> "status", code |-> 200], FALSE, FALSE)),
                      None, FALSE, FALSE, NoMap)

NextLocated ==
    \/ \E t \in MenuInputs : MenuReprompt(t)
    \/ ShowLast
    \/ \E writable \in BOOLEAN : SaveLast(writable)
    \/ MapChoice
    \/ \E t \in ZoomInputs : ZoomReprompt(t)
    \/ \E zt \in ZoomInputs, ct \in ColorInputs, rendered \in BOOLEAN : MapRender(zt, ct, rendered)
    \/ Exit

MapSpec == InitLocated /\ [][NextLocated]_vars

----------------------------------------------------------------------------
(* Properties *)

\* the ip_address arguments main can pass
Targets == { NoIp } \cup { Ip(Strip(t)) : t \in AddrInputs }

LocateOps == { "locate_self", "locate_target" }

\* this step is (the start of) a call of get_ip_geolocation with cache key k
LookupStepOf(k) ==
    /\ pc = "menu"
    /\ \/ pc' = "request" /\ CacheKey(req'.ip) = k
       \/ ev'.ret.valid /\ ev'.ret.key = k

\* C1: once a fetch of a target has returned a record, a further fetch of the
\* same target issues no outbound request and returns the record the first
\* one returned; the number of requests issued for the key stays what it was.
C1_IdempotentCache ==
    [][ \A k \in AllKeys : fetched[k] > 0 =>
          /\ requests'[k] = requests[k]
          /\ LookupStepOf(k) =>
                /\ pc' # "request"
                /\ ev'.ret.cached
                /\ ev'.ret.http.attempts = 0
                /\ ev'.ret.value = first[k].value ]_vars

\* a second fetch of a key answered from the cache, one request in all
C1_Witness ==
    /\ ev.ret.valid /\ ev.ret.cached
    /\ Truthy(ev.ret.value)
    /\ requests[ev.ret.key] = 1 /\ fetched[ev.ret.key] = 1

\* C2: a fetch that ends in an except clause (timeout, HTTP error status,
\* connection failure, body that is not JSON) leaves the cache as it was, with
\* no entry under its key; a fetch of a key whose fetches have all failed
\* goes to the network again.
C2_FailureNotCached ==
    [][ /\ (pc = "request" /\ ev'.ret.valid /\ ev'.ret.error # "") =>
              (geo_cache' = geo_cache /\ ev'.ret.key \notin DOMAIN geo_cache')
        /\ \A k \in AllKeys :
              (requests[k] > 0 /\ fetched[k] = 0 /\ LookupStepOf(k)) =>
                  (pc' = "request" /\ requests'[k] = requests[k] + 1) ]_vars

\* a second request for a key in flight after the first one failed
C2_Witness ==
    /\ pc = "request"
    /\ requests[CacheKey(req.ip)] = 2
    /\ fetched[CacheKey(req.ip)] = 0

\* C3 as stated: every cache key has been requested from the remote service
\* at most once.
C3_RequestedAtMostOnce == \A k \in AllKeys : requests[k] <= 1

\* C3 amended: every cache key has been fetched successfully at most once;
\* the cache holds exactly the keys fetched, bound to what that fetch
\* returned, and a lookup answered from the cache sent nothing.
C3_FetchedAtMostOnce ==
    /\ \A k \in AllKeys :
          /\ fetched[k] <= 1
          /\ fetched[k] = 1 <=> k \in DOMAIN geo_cache
          /\ fetched[k] = 1 => geo_cache[k] = first[k].value
    /\ (ev.ret.valid /\ ev.ret.cached) =>
          /\ ev.ret.http.attempts = 0
          /\ ev.ret.value = geo_cache[ev.ret.key]

\* a key fetched on its second request, the first one having failed
C3_Witness ==
    \E k \in AllKeys : requests[k] = 2 /\ fetched[k] = 1 /\ pc = "menu"

\* a fetch whose every attempt ended in a status of status_forcelist
AlwaysRetryableStatus(r) ==
    r.valid /\ ~r.cached /\ r.http.exhausted /\ r.http.onlyStatus

\* C4 as stated: against a provider that always answers a retryable status a
\* fetch makes exactly 3 attempts and returns an HttpError or Timeout failure.
C4_ExactlyTotalAttempts ==
    AlwaysRetryableStatus(ev.ret) =>
        /\ ev.ret.http.attempts = 3
        /\ ev.ret.error \in { "HTTPError", "Timeout" }

\* C4 amended: against such a provider a fetch makes exactly 4 attempts (the
\* first and 3 retries), then returns None through the RequestException
\* clause; no fetch ever sends more than 4 attempts.
C4_RetryBound ==
    /\ AlwaysRetryableStatus(ev.ret) =>
          /\ ev.ret.http.attempts = 4
          /\ ev.ret.value = None
          /\ ev.ret.error = "RequestException"
    /\ pc = "request" => attempts <= 3
    /\ ev.ret.http.attempts <= 4

\* a fetch given up after a retryable status on every attempt
C4_Witness == AlwaysRetryableStatus(ev.ret) /\ pc = "menu"

\* the retryable conditions of the claim: a timeout, any 5xx, 429
StatedRetryable(l) ==
    \/ l.kind \in { "ctimeout", "rtimeout" }
    \/ l.kind = "status" /\ (l.code = 429 \/ l.code \in 500..599)

\* the retryable conditions of the session: a timeout, a connection error,
\* a status of 429, 500, 502, 503, 504
SessionRetryable(l) ==
    \/ l.kind \in { "ctimeout", "rtimeout", "connerr" }
    \/ l.kind = "status" /\ l.code \in { 429, 500, 502, 503, 504 }

C6_DistinctTargetsDistinctEntries ==
    (ev.ret.valid /\ ev.ret.cached) => ev.ret.ip = first[ev.ret.key].ip

\* an absent target and an empty address text are the same request
SameRequest(a, b) ==
    \/ a = b
    \/ { a, b } = { NoIp, Ip(<< >>) }

\* C6 amended: two targets share a cache key only if they are equal or are
\* the absent target and the empty text; a lookup answered from the cache is
\* answered from an entry stored by a fetch of such a target.
C6_DistinctRequestsDistinctEntries ==
    /\ \A a, b \in Targets : CacheKey(a) = CacheKey(b) => SameRequest(a, b)
    /\ (ev.ret.valid /\ ev.ret.cached) => SameRequest(ev.ret.ip, first[ev.ret.key].ip)

\* a target answered from its own entry while another target's entry holds
\* another record
C6_Witness ==
    /\ ev.ret.valid /\ ev.ret.cached
    /\ \E k \in DOMAIN geo_cache : k # ev.ret.key /\ geo_cache[k] # ev.ret.value

\* C7: whatever a fetch over the network ends in, other than a JSON object,
\* get_ip_geolocation returns None, a notice is printed and main is back at
\* the menu prompt.
C7_NoFatalNetworkError ==
    (ev.ret.valid /\ ~ev.ret.cached /\ (ev.ret.error # "" \/ ev.ret.value.json # "dict")) =>
        /\ pc = "menu"
        /\ ev.ret.value = None
        /\ ev.prints # << >>

C9_ReadOnlyChoices ==
    [][ (pc \in { "menu", "zoom" } /\ ev'.op \in { "show", "save", "map" }) =>
          /\ last_geo_data' = last_geo_data
          /\ geo_cache' = geo_cache
          /\ requests' = requests
          /\ attempts' = attempts
          /\ pc' # "request" ]_vars

\* a map rendered from a filled slot with a defaulted zoom
C9_Witness ==
    /\ ev.op = "map" /\ ev.mapped
    /\ ev.map.zoom = 10
    /\ last_geo_data = GeoA /\ geo_cache # << >>

\* C10: with an empty slot Show, Save and Map only print their no-data
\* notice; save_to_file and create_map are called with a non-empty slot
\* only, and the file is not written while the slot is empty.
C10_EmptySlotGuards ==
    /\ [] /\ (ev.op = "show" /\ ev.slot = None) =>
                ev.prints = << "No geolocation data available. Fetch data first." >>
          /\ (ev.op = "save" /\ ev.slot = None) =>
                ev.prints = << "No geolocation data to save. Fetch data first." >>
          /\ (ev.op = "map" /\ ev.slot = None) =>
                ev.prints = << "No geolocation data available. Fetch data first." >>
          /\ (ev.saved \/ ev.mapped) => ev.slot # None
          /\ pc = "zoom" => last_geo_data # None
    /\ [][ last_geo_data = None => file' = file ]_vars

\* Save chosen with the slot still empty after a fetch that failed
C10_Witness ==
    /\ ev.op = "save" /\ ev.slot = None
    /\ ~ev.saved
    /\ \E k \in AllKeys : requests[k] > 0

\* the handler printed the notice x
Printed(x) == \E i \in 1..Len(ev.prints) : ev.prints[i] = x

\* C11: every call of create_map carries a zoom in 1..18 and one of the five
\* colors; a zoom entered in 1..18 and a color entered from the set are
\* passed on unchanged; any other zoom becomes 10 and any other color blue,
\* each with its notice; the call carries the coordinates of the slot's record.
C11_ZoomColorDefaulting ==
    ev.mapped =>
        /\ ev.map.zoom \in 1..18
        /\ ev.map.color \in { << "red" >>, << "blue" >>, << "green" >>, << "purple" >>,
                               << "orange" >> }
        /\ ev.map.zin \in 1..18 =>
              /\ ev.map.zoom = ev.map.zin
              /\ ~Printed("Zoom level out of range. Using default (10).")
        /\ ev.map.zin \notin 1..18 =>
              /\ ev.map.zoom = 10
              /\ Printed("Zoom level out of range. Using default (10).")
        /\ ev.map.cin \in { << "red" >>, << "blue" >>, << "green" >>, << "purple" >>,
                             << "orange" >> } =>
              /\ ev.map.color = ev.map.cin
              /\ ~Printed("Invalid color. Using default (blue).")
        /\ ev.map.cin = << "pink" >> =>
              /\ ev.map.color = << "blue" >>
              /\ Printed("Invalid color. Using default (blue).")
        /\ ev.map.details = last_geo_data
        /\ last_geo_data = GeoA => (ev.map.lat = 3740 /\ ev.map.lon = 0 - 12208)

\* zoom 25 and color pink entered, the map called with 10 and blue
C11_Witness ==
    /\ ev.mapped
    /\ ev.map.zin = 25 /\ ev.map.zoom = 10
    /\ ev.map.cin = << "pink" >> /\ ev.map.color = << "blue" >>

\* C12: a handler of choices 1 to 5 that has ended has main back at the menu
\* prompt, whatever happened in it; only choice 6 ends the loop, and nothing
\* happens after it.
C12_MenuStateMachine ==
    /\ [](pc \in { "menu", "request", "zoom", "exited" })
    /\ [](pc = "exited" => ev.op = "exit")
    /\ [][pc # "exited"]_vars

\* C13: get_valid_input rejects a menu text exactly when it is not an integer
\* of 1..6; rejecting prints a notice, leaves slot, cache, requests and file as
\* they were and prompts again.
C13_MenuInputValidation ==
    /\ [](\A t \in MenuInputs :
            (\E n \in ValidOptions : Chosen(t, n))
                <=> (IsIntText(Strip(t)) /\ IntOf(Strip(t)) \in 1..6))
    /\ [](ev.op = "reprompt" =>
            /\ ev.rejected.some
            /\ ~(IsIntText(Strip(ev.rejected.text)) /\ IntOf(Strip(ev.rejected.text)) \in 1..6)
            /\ ev.prints # << >>)
    /\ [][ (pc = "menu" /\ ev'.op = "reprompt") =>
              /\ pc' = "menu"
              /\ UNCHANGED << geo_cache, last_geo_data, req, attempts, requests, fetched,
                              first, file >> ]_vars

\* the text 7 rejected at the menu while the slot is filled
C13_Witness ==
    /\ ev.op = "reprompt"
    /\ ev.rejected = Text(<< "7" >>)
    /\ last_geo_data # None

\* C14: a Save with a filled slot either appends one record, the slot's, after
\* the records already in the file, or reports that it could not write; either
\* way main is back at the menu; nothing else writes the file, and what is in
\* the file stays as it is.
C14_AppendOnly ==
    [][ /\ (pc = "menu" /\ ev'.op = "save" /\ last_geo_data # None) =>
              /\ pc' = "menu"
              /\ \/ /\ file' = Append(file, [ip |-> last_geo_data.ip,
                                              loc |-> last_geo_data.loc])
                    /\ ev'.prints = << "Geolocation data saved" >>
                 \/ /\ file' = file
                    /\ ev'.prints = << "Error saving data to file" >>
        /\ Len(file') >= Len(file)
        /\ SubSeq(file', 1, Len(file)) = file
        /\ file' # file =>
              (pc = "menu" /\ ev'.op = "save" /\ Len(file') = Len(file) + 1) ]_vars

\* two different records in the file, in the order they were saved
C14_Witness ==
    /\ Len(file) = 2 /\ file[1] # file[2]
    /\ ev.op = "save" /\ ev.saved
    /\ file[2].ip = last_geo_data.ip

\* C15: session.get is issued only by a locate choice taken at the menu, once
\* per choice; a lookup that fails puts main back at the menu with no lookup
\* in flight; while a lookup is in flight only its own retries are sent.
C15_NoControllerRetry ==
    [][ /\ requests' # requests =>
              /\ pc = "menu" /\ pc' = "request"
              /\ ev'.op \in LocateOps
              /\ \E k \in AllKeys : requests' = [requests EXCEPT ![k] = @ + 1]
        /\ (pc = "request" /\ ev'.ret.valid /\ ev'.ret.error # "") =>
              /\ pc' = "menu"
              /\ req' = Idle
              /\ attempts' = 0
              /\ requests' = requests
        /\ (pc = "request" /\ pc' = "request") =>
              (req'.ip = req.ip /\ req'.retries < req.retries) ]_vars

\* a lookup failed, main is at the menu and one request was issued in all
C15_Witness ==
    /\ pc = "menu" /\ req = Idle
    /\ ev.ret.valid /\ ev.ret.error # ""
    /\ \A k \in AllKeys : requests[k] = IF k = ev.ret.key THEN 1 ELSE 0

\* C16: the cache is empty at the start; a key enters it only in the step in
\* which a fetch of that key returns the body of a 200, bound to the value
\* returned; an entry is never removed nor bound to another value.
C16_CacheMonotone ==
    /\ [](ev.op = "start" => geo_cache = << >>)
    /\ [][ /\ \A k \in DOMAIN geo_cache :
                  k \in DOMAIN geo_cache' /\ geo_cache'[k] = geo_cache[k]
           /\ \A k \in DOMAIN geo_cache' \ DOMAIN geo_cache :
                  /\ pc = "request"
                  /\ ev'.ret.valid /\ ~ev'.ret.cached /\ ev'.ret.error = ""
                  /\ ev'.ret.key = k
                  /\ geo_cache'[k] = ev'.ret.value
                  /\ ev'.ret.http.last = [kind |-> "status", code |-> 200] ]_vars

\* two keys in the cache
C16_Witness ==
    /\ Cardinality(DOMAIN geo_cache) = 2
    /\ pc = "menu" /\ ev.op = "show"

\* the cache key of the request without an address
SelfKey == << "https://ipinfo.io/", "json", "{'token': '20020022f148d7'}" >>

\* C17: an empty address text is looked up as no address is: same URL, same
\* cache key; once either lookup has stored the entry the other is answered
\* from it and sends no request.
C17_EmptyTextIsSelf ==
    /\ Url(Ip(Strip(<< " " >>))) = << "https://ipinfo.io/", "json" >>
    /\ Url(NoIp) = << "https://ipinfo.io/", "json" >>
    /\ CacheKey(Ip(<< >>)) = SelfKey /\ CacheKey(NoIp) = SelfKey
    /\ (ev.ret.valid /\ ev.ret.ip \in { NoIp, Ip(<< >>) }) => ev.ret.key = SelfKey
    /\ (ev.ret.valid /\ ev.ret.cached /\ ev.ret.ip \in { NoIp, Ip(<< >>) }) =>
          (SelfKey \in DOMAIN geo_cache /\ ev.ret.value = geo_cache[SelfKey])
    /\ (pc = "request" /\ req.ip \in { NoIp, Ip(<< >>) }) => SelfKey \notin DOMAIN geo_cache

\* an empty address answered from the entry that Locate self stored
C17_Witness ==
    /\ ev.ret.valid /\ ev.ret.cached
    /\ ev.ret.ip = Ip(<< >>)
    /\ first[ev.ret.key].ip = NoIp
    /\ Truthy(ev.ret.value)

\* C18: a filled slot holds a value stored in the cache: the slot changes only
\* when a locate choice returns, to the entry under that lookup's key, and
\* that entry stays as it is.
C18_SlotIsCached ==
    /\ [](last_geo_data # None =>
            \E k \in DOMAIN geo_cache : geo_cache[k] = last_geo_data)
    /\ []((ev.op \in LocateOps /\ ev.ret.valid /\ last_geo_data # ev.slot) =>
            (ev.ret.key \in DOMAIN geo_cache /\ geo_cache[ev.ret.key] = last_geo_data))
    /\ [][ /\ last_geo_data' # last_geo_data =>
                  /\ ev'.op \in LocateOps /\ ev'.ret.valid
                  /\ ev'.ret.key \in DOMAIN geo_cache'
                  /\ geo_cache'[ev'.ret.key] = last_geo_data'
           /\ \A k \in DOMAIN geo_cache :
                  k \in DOMAIN geo_cache' /\ geo_cache'[k] = geo_cache[k] ]_vars

\* the slot holds one of two different cached records
C18_Witness ==
    /\ last_geo_data = GeoB
    /\ \E k \in DOMAIN geo_cache : geo_cache[k] = GeoA
    /\ ev.op \in LocateOps /\ ev.slot = GeoA

\* C19: a filled slot is never emptied.
C19_SlotNeverReverts ==
    [][ last_geo_data # None => last_geo_data' # None ]_vars

\* a lookup answered 200 with the body null while the slot was filled
C19_Witness ==
    /\ ev.op \in LocateOps /\ ev.ret.valid
    /\ ev.ret.error = "" /\ ev.ret.value = None
    /\ ev.slot = GeoA /\ last_geo_data = GeoA

\* the records whose loc is not "lat,lon": absent, not two parts, a part
\* that is not a number, or no text at all
BadLocRecords == LocRecords \ { GeoA }

\* C20: with such a record in the slot the Map choice prints an error notice
\* and returns to the menu: create_map is never called and the zoom prompt
\* never reached; slot, cache, requests and file stay as they are.
C20_BadLocNoMap ==
    /\ [](last_geo_data \in BadLocRecords => (~ev.mapped /\ pc # "zoom"))
    /\ []((ev.op = "map" /\ last_geo_data \in BadLocRecords) =>
            /\ pc = "menu"
            /\ ev.prints \in { << "Error: Could not extract location data." >>,
                                << "Error: Invalid location data format." >> })
    /\ [][ (pc = "menu" /\ ev'.op = "map") =>
              UNCHANGED << last_geo_data, geo_cache, requests, fetched, file >> ]_vars

\* the same for the records whose loc is absent or a text: split and float
\* reject each of them with a notice
TextLocNoMap ==
    []((ev.op = "map" /\ last_geo_data \in BadLocRecords \ { GeoNumLoc }) =>
            /\ pc = "menu" /\ ~ev.mapped
            /\ ev.prints \in { << "Error: Could not extract location data." >>,
                                << "Error: Invalid location data format." >> })

====
